---- MODULE Spec2Model ----
(***************************************************************************)
(* syslog-sender (src/main.go): a single-shot command line program that    *)
(* validates a SyslogConfig, renders one RFC 3164 line and writes it once  *)
(* to a UDP or TCP socket.                                                  *)
(*                                                                         *)
(* Go strings are modelled as sequences of one-character strings, so that  *)
(* strings.ToLower, strings.ReplaceAll and fmt.Sprintf are computed        *)
(* character by character.  An error value is the fixed text of its        *)
(* fmt.Errorf call; Nil is the nil error.                                   *)
(***************************************************************************)
EXTENDS Integers, Sequences, FiniteSets, TLC

VARIABLES
    osArgs,      \* the command line: for each option the values given for it
    environ,     \* the process environment: [SYSLOG_DEBUG |-> BOOLEAN]
    mainConfig,  \* main's local `config` (a test's tt.config in SpecClient)
    config,      \* s.config, the client's own copy
    pc,          \* position in main / Send / SendUDP / SendTCP
    calls,       \* the operations entered so far, in order
    err,         \* the error returned by the last operation that returned one
    message,     \* the line returned by formatMessage (NoMessage before)
    now,         \* the value time.Now() returned to formatMessage (NoClock before)
    osHostname,  \* what os.Hostname() returned to formatMessage (Unset if not called)
    net,         \* the network as this process sees it
    stdout,      \* what was printed to standard output, in order
    stderr,      \* what was printed to standard error, in order
    exitCode     \* the process exit status (-1 while running)

vars == <<osArgs, environ, mainConfig, config, pc, calls, err, message, now,
          osHostname, net, stdout, stderr, exitCode>>

Unset == "unset"
Nil == "nil"

-----------------------------------------------------------------------------
(* Bounds of the model.                                                    *)

\* longest hostname / program override drawn from the whole alphabet
MaxStrLen == 3

-----------------------------------------------------------------------------
(* Strings.                                                                *)

\* the characters overrides are drawn from: a letter, the space, a tab, a newline
Chars == {"a", " ", "\t", "\n"}

Strings(n) == UNION {[1..k -> Chars] : k \in 0..n}

Range(s) == {s[i] : i \in 1..Len(s)}

UpperCase == <<"A","B","C","D","E","F","G","H","I","J","K","L","M",
               "N","O","P","Q","R","S","T","U","V","W","X","Y","Z">>
LowerCase == <<"a","b","c","d","e","f","g","h","i","j","k","l","m",
               "n","o","p","q","r","s","t","u","v","w","x","y","z">>
Digits == <<"0","1","2","3","4","5","6","7","8","9">>

\* unicode.ToLower on one character of the alphabet the model uses
ToLowerChar(c) ==
    IF \E i \in 1..26 : UpperCase[i] = c
    THEN LowerCase[CHOOSE i \in 1..26 : UpperCase[i] = c]
    ELSE c

\* strings.ToLower
ToLower(s) == [i \in 1..Len(s) |-> ToLowerChar(s[i])]

\* strings.ToUpper
ToUpper(s) ==
    [i \in 1..Len(s) |->
        IF \E j \in 1..26 : LowerCase[j] = s[i]
        THEN UpperCase[CHOOSE j \in 1..26 : LowerCase[j] = s[i]]
        ELSE s[i]]

\* strings.ReplaceAll(s, old, new) for a one-character old and new
ReplaceAll(s, old, new) == [i \in 1..Len(s) |-> IF s[i] = old THEN new ELSE s[i]]

\* strconv.Itoa / the %d verb: decimal, no padding, "-" for a negative number
RECURSIVE Itoa(_)
Itoa(n) ==
    IF n < 0 THEN <<"-">> \o Itoa(-n)
    ELSE IF n < 10 THEN <<Digits[n + 1]>>
    ELSE Itoa(n \div 10) \o <<Digits[(n % 10) + 1]>>

\* fmt.Sprintf for the verbs %d and %s: every other character of the format is
\* copied, every verb is replaced by the text of the next operand
RECURSIVE Sprintf(_, _)
Sprintf(format, operands) ==
    IF format = <<>> THEN <<>>
    ELSE IF Head(format) = "%" /\ Len(format) >= 2 /\ format[2] \in {"d", "s"}
         THEN Head(operands) \o Sprintf(SubSeq(format, 3, Len(format)), Tail(operands))
         ELSE <<Head(format)>> \o Sprintf(Tail(format), operands)

-----------------------------------------------------------------------------
(* Program constants.                                                      *)

MaxFacility == 23
MaxSeverity == 7
MaxPort == 65535
DefaultPort == 514
DefaultTCPPort == 601
DefaultFacility == 16
DefaultSeverity == 6

UDP == <<"u","d","p">>
TCP == <<"t","c","p">>
DefaultAddress == <<"l","o","c","a","l","h","o","s","t">>
DefaultProgram == <<"s","y","s","l","o","g","-","s","e","n","d","e","r">>
FallbackHostname == <<"l","o","c","a","l","h","o","s","t">>
MessageFormat == <<"<","%","d",">","%","s"," ","%","s"," ","%","s",":"," ","%","s">>

ErrMessage == "message is required"
ErrFacility == "facility must be between 0 and 23"
ErrSeverity == "severity must be between 0 and 7"
ErrPort == "port must be between 1 and 65535"
ErrTransport == "transport must be 'udp' or 'tcp'"
ErrUnsupported == "unsupported transport"
ErrFormat == "failed to format message"
ErrResolveUDP == "failed to resolve UDP address"
ErrConnectUDP == "failed to connect to UDP server"
ErrSendUDP == "failed to send UDP message"
ErrConnectTCP == "failed to connect to TCP server"
ErrSendTCP == "failed to send TCP message"
AddrFormat == <<"%","s",":","%","d">>

-----------------------------------------------------------------------------
(* time.Now().Format("Jan  2 15:04:05")                                    *)

MonthAbbr == << <<"J","a","n">>, <<"F","e","b">>, <<"M","a","r">>, <<"A","p","r">>,
                <<"M","a","y">>, <<"J","u","n">>, <<"J","u","l">>, <<"A","u","g">>,
                <<"S","e","p">>, <<"O","c","t">>, <<"N","o","v">>, <<"D","e","c">> >>

\* the layout elements 15, 04 and 05: two digits, zero padded
TwoDigits(n) == <<Digits[(n \div 10) + 1], Digits[(n % 10) + 1]>>

\* The layout is the month name "Jan", two literal spaces, the day "2" (no
\* padding), a space and "15:04:05".
TimeFormat(t) ==
    MonthAbbr[t.month] \o <<" ", " ">> \o Itoa(t.day) \o <<" ">>
        \o TwoDigits(t.hour) \o <<":">> \o TwoDigits(t.minute) \o <<":">>
        \o TwoDigits(t.second)

\* the wall-clock readings the model draws from
Clocks ==
    { [month |-> 1, day |-> 2, hour |-> 15, minute |-> 4, second |-> 5],
      [month |-> 11, day |-> 16, hour |-> 0, minute |-> 59, second |-> 30] }

\* the results of os.Hostname() the model draws from
HostnameResults ==
    { [name |-> <<"b","o","x">>, err |-> Nil],
      [name |-> <<"m","y"," ","b","o","x">>, err |-> Nil],
      [name |-> <<>>, err |-> "hostname: lookup failed"] }

NoHostnameCall == [name |-> <<>>, err |-> Unset]

\* before formatMessage has run: no reading of the clock, no line
NoClock == [month |-> 0, day |-> 0, hour |-> 0, minute |-> 0, second |-> 0]

NoMessage == <<>>

-----------------------------------------------------------------------------
(* validateConfig and formatMessage.                                       *)

\* a bug: the transport is normalised in place before the checks, so a failing
\* validation has changed it too
validateConfig_StoreFirst(cfg) ==
    IF cfg.Message = <<>>
    THEN [err |-> ErrMessage, config |-> [cfg EXCEPT !.Transport = ToLower(cfg.Transport)]]
    ELSE IF cfg.Facility < 0 \/ cfg.Facility > MaxFacility
         THEN [err |-> ErrFacility,
               config |-> [cfg EXCEPT !.Transport = ToLower(cfg.Transport)]]
    ELSE IF cfg.Severity < 0 \/ cfg.Severity > MaxSeverity
         THEN [err |-> ErrSeverity,
               config |-> [cfg EXCEPT !.Transport = ToLower(cfg.Transport)]]
    ELSE IF cfg.Port < 1 \/ cfg.Port > MaxPort
         THEN [err |-> ErrPort,
               config |-> [cfg EXCEPT !.Transport = ToLower(cfg.Transport)]]
    ELSE IF ToLower(cfg.Transport) # UDP /\ ToLower(cfg.Transport) # TCP
         THEN [err |-> ErrTransport,
               config |-> [cfg EXCEPT !.Transport = ToLower(cfg.Transport)]]
    ELSE [err |-> Nil, config |-> [cfg EXCEPT !.Transport = ToLower(cfg.Transport)]]

\* a bug: the normalised transport is not stored back
validateConfig_NoStore(cfg) ==
    IF cfg.Message = <<>> THEN [err |-> ErrMessage, config |-> cfg]
    ELSE IF cfg.Facility < 0 \/ cfg.Facility > MaxFacility
         THEN [err |-> ErrFacility, config |-> cfg]
    ELSE IF cfg.Severity < 0 \/ cfg.Severity > MaxSeverity
         THEN [err |-> ErrSeverity, config |-> cfg]
    ELSE IF cfg.Port < 1 \/ cfg.Port > MaxPort
         THEN [err |-> ErrPort, config |-> cfg]
    ELSE IF ToLower(cfg.Transport) # UDP /\ ToLower(cfg.Transport) # TCP
         THEN [err |-> ErrTransport, config |-> cfg]
    ELSE [err |-> Nil, config |-> cfg]

\* a bug: the port is checked before the facility and the severity
validateConfig_PortFirst(cfg) ==
    IF cfg.Message = <<>> THEN [err |-> ErrMessage, config |-> cfg]
    ELSE IF cfg.Port < 1 \/ cfg.Port > MaxPort
         THEN [err |-> ErrPort, config |-> cfg]
    ELSE IF cfg.Facility < 0 \/ cfg.Facility > MaxFacility
         THEN [err |-> ErrFacility, config |-> cfg]
    ELSE IF cfg.Severity < 0 \/ cfg.Severity > MaxSeverity
         THEN [err |-> ErrSeverity, config |-> cfg]
    ELSE IF ToLower(cfg.Transport) # UDP /\ ToLower(cfg.Transport) # TCP
         THEN [err |-> ErrTransport, config |-> cfg]
    ELSE [err |-> Nil, config |-> [cfg EXCEPT !.Transport = ToLower(cfg.Transport)]]

\* a bug: port 65536 is accepted
validateConfig_PortOffByOne(cfg) ==
    IF cfg.Message = <<>> THEN [err |-> ErrMessage, config |-> cfg]
    ELSE IF cfg.Facility < 0 \/ cfg.Facility > MaxFacility
         THEN [err |-> ErrFacility, config |-> cfg]
    ELSE IF cfg.Severity < 0 \/ cfg.Severity > MaxSeverity
         THEN [err |-> ErrSeverity, config |-> cfg]
    ELSE IF cfg.Port < 1 \/ cfg.Port > MaxPort + 1
         THEN [err |-> ErrPort, config |-> cfg]
    ELSE IF ToLower(cfg.Transport) # UDP /\ ToLower(cfg.Transport) # TCP
         THEN [err |-> ErrTransport, config |-> cfg]
    ELSE [err |-> Nil, config |-> [cfg EXCEPT !.Transport = ToLower(cfg.Transport)]]

\* (s *SyslogClient) validateConfig: the error returned and s.config afterwards
validateConfig(cfg) ==
    IF cfg.Message = <<>> THEN [err |-> ErrMessage, config |-> cfg]
    ELSE IF cfg.Facility < 0 \/ cfg.Facility > MaxFacility
         THEN [err |-> ErrFacility, config |-> cfg]
    ELSE IF cfg.Severity < 0 \/ cfg.Severity > MaxSeverity
         THEN [err |-> ErrSeverity, config |-> cfg]
    ELSE IF cfg.Port < 1 \/ cfg.Port > MaxPort
         THEN [err |-> ErrPort, config |-> cfg]
    ELSE IF ToLower(cfg.Transport) # UDP /\ ToLower(cfg.Transport) # TCP
         THEN [err |-> ErrTransport, config |-> cfg]
    ELSE [err |-> Nil, config |-> [cfg EXCEPT !.Transport = ToLower(cfg.Transport)]]

\* a bug: the facility is not scaled by 8
Priority_Sum(cfg) == cfg.Facility + cfg.Severity

\* priority := s.config.Facility*8 + s.config.Severity
Priority(cfg) == cfg.Facility * 8 + cfg.Severity

\* formatMessage calls os.Hostname() only when no hostname override is set
CallsOsHostname(cfg) == cfg.Hostname = <<>>

\* a bug: the error of os.Hostname() is not checked, the name it returned is used
RawHostname_NoFallback(cfg, h) ==
    IF cfg.Hostname # <<>> THEN cfg.Hostname ELSE h.name

\* the hostname before the spaces are replaced; h is what os.Hostname() returned
RawHostname(cfg, h) ==
    IF cfg.Hostname # <<>> THEN cfg.Hostname
    ELSE IF h.err # Nil THEN FallbackHostname
    ELSE h.name

\* the program before the spaces are replaced
RawProgram(cfg) == IF cfg.Program # <<>> THEN cfg.Program ELSE DefaultProgram

\* a bug: only an override is cleaned, the system hostname is used as it is
Hostname_OverrideOnly(cfg, h) ==
    IF cfg.Hostname # <<>> THEN ReplaceAll(cfg.Hostname, " ", "-")
    ELSE RawHostname(cfg, h)

\* the local `hostname` of formatMessage after line 90
Hostname(cfg, h) == ReplaceAll(RawHostname(cfg, h), " ", "-")

\* a bug: the program is used as given
Program_NoReplace(cfg) == RawProgram(cfg)

\* the local `program` of formatMessage after line 101
Program(cfg) == ReplaceAll(RawProgram(cfg), " ", "-")

\* a bug: the line is terminated here instead of on the TCP path
formatMessage_Newline(cfg, t, h) ==
    Sprintf(MessageFormat,
            <<Itoa(Priority(cfg)), TimeFormat(t), Hostname(cfg, h), Program(cfg),
              cfg.Message>>) \o <<"\n">>

\* a bug: the program comes before the hostname
formatMessage_Swapped(cfg, t, h) ==
    Sprintf(MessageFormat,
            <<Itoa(Priority(cfg)), TimeFormat(t), Program(cfg), Hostname(cfg, h),
              cfg.Message>>)

\* a bug: the error of os.Hostname() is returned to the caller
formatMessageError_Hostname(cfg, t, h) ==
    IF CallsOsHostname(cfg) /\ h.err # Nil THEN h.err ELSE Nil

\* (s *SyslogClient) formatMessage: the error returned, line 107
formatMessageError(cfg, t, h) == Nil

\* (s *SyslogClient) formatMessage: the line returned (the error is always nil);
\* t is what time.Now() returned and h what os.Hostname() returned
formatMessage(cfg, t, h) ==
    Sprintf(MessageFormat,
            <<Itoa(Priority(cfg)), TimeFormat(t), Hostname(cfg, h), Program(cfg),
              cfg.Message>>)

-----------------------------------------------------------------------------
(* Inputs.                                                                 *)

SyslogConfig(address, port, transport, facility, severity, msg, hostname, program) ==
    [Address |-> address, Port |-> port, Transport |-> transport,
     Facility |-> facility, Severity |-> severity, Message |-> msg,
     Hostname |-> hostname, Program |-> program]

\* what the flag definitions of main leave in config before flag.Parse
FlagDefaults ==
    SyslogConfig(DefaultAddress, DefaultPort, UDP, DefaultFacility, DefaultSeverity,
                 <<>>, <<>>, <<>>)

TransportInputs ==
    { UDP, <<"U","D","P">>, TCP, <<"t","C","p">>, <<>>, <<"u","d">>, <<"t","l","s">> }

FacilityInputs == {-1, 0, MaxFacility, MaxFacility + 1, MaxFacility + 2}
SeverityInputs == {-1, 0, 1, MaxSeverity, MaxSeverity + 1}
PortInputs == {-1, 0, 1, MaxPort, MaxPort + 1}
AddressInputs == {<<"s","1">>, <<>>}
MessageInputs == {<<"m">>, <<"m"," ","m">>, <<"m","\n">>, <<" ","m","\n","m"," ">>}

\* hostname and program overrides: every string over Chars up to MaxStrLen
NameInputs == Strings(MaxStrLen)

\* configurations a caller of the client's methods may construct:
\* every combination of in-range and out-of-range field values, ...
ValidationConfigs ==
    [Address : AddressInputs, Port : PortInputs, Transport : TransportInputs,
     Facility : FacilityInputs, Severity : SeverityInputs,
     Message : {<<>>, <<"m">>},
     Hostname : {<<>>, <<"h"," ","h">>}, Program : {<<>>, <<"p">>}]

\* ... every facility and severity in range, ...
PriorityConfigs ==
    [Address : {DefaultAddress}, Port : {DefaultPort}, Transport : {UDP},
     Facility : 0..MaxFacility, Severity : 0..MaxSeverity,
     Message : {<<"m">>}, Hostname : {<<>>, <<"h">>}, Program : {<<>>}]

\* ... and every hostname and every program override up to MaxStrLen
TextConfigs ==
    [Address : {DefaultAddress}, Port : {DefaultPort}, Transport : {UDP, <<"T","C","P">>},
     Facility : {DefaultFacility}, Severity : {DefaultSeverity},
     Message : MessageInputs, Hostname : NameInputs, Program : {<<>>, <<"p"," ","q">>}]
    \cup
    [Address : {DefaultAddress}, Port : {DefaultPort}, Transport : {UDP, <<"T","C","P">>},
     Facility : {DefaultFacility}, Severity : {DefaultSeverity},
     Message : MessageInputs, Hostname : {<<>>, <<"h"," ","h">>}, Program : NameInputs]

ClientConfigs == ValidationConfigs \cup PriorityConfigs \cup TextConfigs

\* resolved: the calls of net.ResolveUDPAddr; dialed: the calls of net.DialUDP
\* and net.DialTimeout; writes: the calls of conn.Write, each with its outcome
\* ("ok" or what failed); open / closed: the sockets now open / closed so far
NoNet == [resolved |-> <<>>, dialed |-> <<>>, open |-> 0, closed |-> 0, writes |-> <<>>]

\* the zero value of SyslogConfig: no client has been constructed yet
NoConfig == SyslogConfig(<<>>, 0, <<>>, 0, 0, <<>>, <<>>, <<>>)

-----------------------------------------------------------------------------
(* SpecClient: a caller (the tests of src/main_test.go) constructs a       *)
(* client and calls validateConfig and formatMessage on it, each at most   *)
(* once, in either order.                                                  *)

InitClient ==
    /\ mainConfig \in ClientConfigs
    /\ config = mainConfig                     \* NewSyslogClient(tt.config)
    /\ osArgs = Unset
    /\ environ = [SYSLOG_DEBUG |-> FALSE]
    /\ pc = "test"
    /\ calls = <<>>
    /\ err = Unset
    /\ message = NoMessage
    /\ now = NoClock
    /\ osHostname = NoHostnameCall
    /\ net = NoNet
    /\ stdout = <<>>
    /\ stderr = <<>>
    /\ exitCode = -1

\* err := client.validateConfig()
TestValidateConfig ==
    /\ pc = "test"
    /\ "validateConfig" \notin Range(calls)
    /\ calls' = Append(calls, "validateConfig")
    /\ err' = validateConfig(config).err
    /\ config' = validateConfig(config).config
    /\ UNCHANGED <<osArgs, environ, mainConfig, pc, message, now, osHostname, net,
                   stdout, stderr, exitCode>>

\* message, err := client.formatMessage()
TestFormatMessage ==
    /\ pc = "test"
    /\ "formatMessage" \notin Range(calls)
    /\ \E t \in Clocks :
       \E h \in (IF CallsOsHostname(config) THEN HostnameResults ELSE {NoHostnameCall}) :
          /\ now' = t
          /\ osHostname' = h
          /\ message' = formatMessage(config, t, h)
    /\ calls' = Append(calls, "formatMessage")
    /\ UNCHANGED <<osArgs, environ, mainConfig, config, pc, err, net, stdout, stderr,
                   exitCode>>

NextClient == TestValidateConfig \/ TestFormatMessage

SpecClient == InitClient /\ [][NextClient]_vars

-----------------------------------------------------------------------------
(* Spec: one run of the program, from main to the process exit.            *)

\* An option of the command line is the sequence of the values given for it:
\* <<>> when the option does not appear.  Command lines are well formed (every
\* value parses as its flag's type).
CommandLines ==
    [address : {<<>>, << <<"s","1">> >>},
     port : {<<>>, <<0>>, <<DefaultPort>>, <<DefaultTCPPort>>, <<1514>>},
     transport : {<<>>, <<UDP>>, << <<"U","D","P">> >>, <<TCP>>, << <<"T","c","p">> >>,
                  << <<"t","l","s">> >>},
     facility : {<<>>, <<MaxFacility + 2>>},
     severity : {<<>>, <<1>>},
     message : {<<>>, << <<"m"," ","m">> >>},
     hostname : {<<>>, << <<"a"," ","b">> >>},
     program : {<<>>, << <<"p"," ","q">> >>},
     help : {<<>>, <<TRUE>>},
     version : {<<>>, <<TRUE>>}]

\* the value a flag variable holds after flag.Parse
FlagValue(given, default) == IF given = <<>> THEN default ELSE given[Len(given)]

\* flag.Parse: every option given overwrites its variable's default
FlagParse(a) ==
    SyslogConfig(FlagValue(a.address, FlagDefaults.Address),
                 FlagValue(a.port, FlagDefaults.Port),
                 FlagValue(a.transport, FlagDefaults.Transport),
                 FlagValue(a.facility, FlagDefaults.Facility),
                 FlagValue(a.severity, FlagDefaults.Severity),
                 FlagValue(a.message, FlagDefaults.Message),
                 FlagValue(a.hostname, FlagDefaults.Hostname),
                 FlagValue(a.program, FlagDefaults.Program))

\* a bug: the transport is compared without folding its case
AdjustPort_CaseSensitive(cfg) ==
    IF Itoa(cfg.Port) = <<"5","1","4">> /\ cfg.Transport = TCP
    THEN [cfg EXCEPT !.Port = DefaultTCPPort]
    ELSE cfg

\* main, lines 250-253: flag.Lookup("port").Value.String() is the decimal text
\* of the current value of config.Port
AdjustPort(cfg) ==
    IF Itoa(cfg.Port) = <<"5","1","4">> /\ ToLower(cfg.Transport) = TCP
    THEN [cfg EXCEPT !.Port = DefaultTCPPort]
    ELSE cfg

Init ==
    /\ osArgs \in CommandLines
    /\ environ \in [SYSLOG_DEBUG : BOOLEAN]
    /\ mainConfig = FlagDefaults
    /\ config = NoConfig
    /\ pc = "main"
    /\ calls = <<>>
    /\ err = Unset
    /\ message = NoMessage
    /\ now = NoClock
    /\ osHostname = NoHostnameCall
    /\ net = NoNet
    /\ stdout = <<>>
    /\ stderr = <<>>
    /\ exitCode = -1

\* main, line 228
MainParse ==
    /\ pc = "main"
    /\ mainConfig' = FlagParse(osArgs)
    /\ pc' = "parsed"
    /\ UNCHANGED <<osArgs, environ, config, calls, err, message, now, osHostname, net,
                   stdout, stderr, exitCode>>

\* main, lines 231-235
MainVersion ==
    /\ pc = "parsed"
    /\ FlagValue(osArgs.version, FALSE)
    /\ stdout' = stdout \o <<[kind |-> "version"], [kind |-> "project"]>>
    /\ exitCode' = 0
    /\ pc' = "exit"
    /\ UNCHANGED <<osArgs, environ, mainConfig, config, calls, err, message, now,
                   osHostname, net, stderr>>

\* main, lines 238-241
MainHelp ==
    /\ pc = "parsed"
    /\ ~FlagValue(osArgs.version, FALSE)
    /\ FlagValue(osArgs.help, FALSE)
    /\ stdout' = Append(stdout, [kind |-> "usage"])
    /\ exitCode' = 0
    /\ pc' = "exit"
    /\ UNCHANGED <<osArgs, environ, mainConfig, config, calls, err, message, now,
                   osHostname, net, stderr>>

\* a bug: the message is required before -version and -help are looked at
MainNoMessage_BeforeHelp ==
    /\ pc = "parsed"
    /\ mainConfig.Message = <<>>
    /\ stderr' = Append(stderr, [kind |-> "error", text |-> ErrMessage])
    /\ stdout' = Append(stdout, [kind |-> "usage"])
    /\ exitCode' = 1
    /\ pc' = "exit"
    /\ UNCHANGED <<osArgs, environ, mainConfig, config, calls, err, message, now,
                   osHostname, net>>

\* main, lines 244-248
MainNoMessage ==
    /\ pc = "parsed"
    /\ ~FlagValue(osArgs.version, FALSE)
    /\ ~FlagValue(osArgs.help, FALSE)
    /\ mainConfig.Message = <<>>
    /\ stderr' = Append(stderr, [kind |-> "error", text |-> ErrMessage])
    /\ stdout' = Append(stdout, [kind |-> "usage"])
    /\ exitCode' = 1
    /\ pc' = "exit"
    /\ UNCHANGED <<osArgs, environ, mainConfig, config, calls, err, message, now,
                   osHostname, net>>

\* main, lines 250-256: the port adjustment and NewSyslogClient(config)
MainNewClient ==
    /\ pc = "parsed"
    /\ ~FlagValue(osArgs.version, FALSE)
    /\ ~FlagValue(osArgs.help, FALSE)
    /\ mainConfig.Message # <<>>
    /\ mainConfig' = AdjustPort(mainConfig)
    /\ config' = mainConfig'
    /\ calls' = Append(calls, "NewSyslogClient")
    /\ pc' = "Send"
    /\ UNCHANGED <<osArgs, environ, err, message, now, osHostname, net, stdout, stderr,
                   exitCode>>

\* serverAddr := fmt.Sprintf("%s:%d", s.config.Address, s.config.Port)
ServerAddr(cfg) == Sprintf(AddrFormat, <<cfg.Address, Itoa(cfg.Port)>>)

\* a bug: the error of validateConfig is not returned
SendValidate_ErrorIgnored ==
    /\ pc = "Send"
    /\ calls' = calls \o <<"Send", "validateConfig">>
    /\ err' = validateConfig(config).err
    /\ config' = validateConfig(config).config
    /\ pc' = "Send_format"
    /\ UNCHANGED <<osArgs, environ, mainConfig, message, now, osHostname, net, stdout,
                   stderr, exitCode>>

\* Send, lines 163-166
SendValidate ==
    /\ pc = "Send"
    /\ calls' = calls \o <<"Send", "validateConfig">>
    /\ err' = validateConfig(config).err
    /\ config' = validateConfig(config).config
    /\ pc' = IF validateConfig(config).err # Nil THEN "Send_return" ELSE "Send_format"
    /\ UNCHANGED <<osArgs, environ, mainConfig, message, now, osHostname, net, stdout,
                   stderr, exitCode>>

\* Send, lines 168-172
SendFormat ==
    /\ pc = "Send_format"
    /\ \E t \in Clocks :
       \E h \in (IF CallsOsHostname(config) THEN HostnameResults ELSE {NoHostnameCall}) :
          /\ now' = t
          /\ osHostname' = h
          /\ IF formatMessageError(config, t, h) = Nil
             THEN /\ message' = formatMessage(config, t, h)
                  /\ err' = err
                  /\ pc' = "Send_debug"
             ELSE /\ message' = message
                  /\ err' = ErrFormat
                  /\ pc' = "Send_return"
    /\ calls' = Append(calls, "formatMessage")
    /\ UNCHANGED <<osArgs, environ, mainConfig, config, net, stdout, stderr, exitCode>>

\* Send, lines 174-178
SendDebug ==
    /\ pc = "Send_debug"
    /\ stdout' = IF environ.SYSLOG_DEBUG
                 THEN stdout \o <<[kind |-> "debug_message", text |-> message],
                                  [kind |-> "debug_target", address |-> config.Address,
                                   port |-> config.Port, transport |-> config.Transport]>>
                 ELSE stdout
    /\ pc' = "Send_switch"
    /\ UNCHANGED <<osArgs, environ, mainConfig, config, calls, err, message, now,
                   osHostname, net, stderr, exitCode>>

\* Send, lines 180-188
SendSwitch ==
    /\ pc = "Send_switch"
    /\ IF config.Transport = UDP
       THEN /\ pc' = "SendUDP"
            /\ calls' = Append(calls, "SendUDP")
            /\ err' = err
       ELSE IF config.Transport = TCP
       THEN /\ pc' = "SendTCP"
            /\ calls' = Append(calls, "SendTCP")
            /\ err' = err
       ELSE /\ pc' = "Send_return"
            /\ calls' = calls
            /\ err' = ErrUnsupported
    /\ UNCHANGED <<osArgs, environ, mainConfig, config, message, now, osHostname, net,
                   stdout, stderr, exitCode>>

\* What the other end of a dial may be: a server accepting connections, a host
\* refusing them, a host that never answers, a name that does not resolve.
Endpoints == {"listening", "refusing", "silent", "unknown"}

\* What may become of a Write: the local stack takes the bytes, reports an
\* error, or does not take them (a full buffer, a peer that stopped reading).
Peers == {"accepting", "failing", "stalled"}

\* net.ResolveUDPAddr: the address resolves or it does not
ResolveOutcomes == {"ok", "resolve"}

\* net.DialUDP: no packet is exchanged, the socket is created or the call fails
UDPDialOutcomes == {"ok", "connect"}

\* net.DialTimeout("tcp", serverAddr, 10*time.Second): the dial resolves the
\* name itself, and returns after ten seconds from a host that never answers
TCPDialOutcomes(e) ==
    CASE e = "listening" -> {"ok"}
      [] e = "refusing" -> {"connect"}
      [] e = "silent" -> {"timeout"}
      [] e = "unknown" -> {"resolve"}

\* conn.SetWriteDeadline(time.Now().Add(5 * time.Second)); conn.Write(..): a
\* write the stack does not take returns when the deadline expires
WriteOutcomes(p) ==
    CASE p = "accepting" -> {"ok"}
      [] p = "failing" -> {"write"}
      [] p = "stalled" -> {"timeout"}

\* a bug: the line is terminated on the UDP path too
UDPPayload_Newline(m) == m \o <<"\n">>

\* SendUDP, line 130: []byte(message)
UDPPayload(m) == m

\* SendTCP, lines 152-153: []byte(message + "\n")
TCPPayload(m) == m \o <<"\n">>

\* a bug: a failed resolution is returned with the text of a failed connection
UDPResolve_ConnectError ==
    /\ pc = "SendUDP"
    /\ \E o \in ResolveOutcomes :
          /\ net' = [net EXCEPT
                        !.resolved = Append(@, [addr |-> ServerAddr(config), outcome |-> o])]
          /\ err' = IF o = "ok" THEN Nil ELSE ErrConnectUDP
          /\ pc' = IF o = "ok" THEN "SendUDP_dial" ELSE "Send_return"
    /\ UNCHANGED <<osArgs, environ, mainConfig, config, calls, message, now, osHostname,
                   stdout, stderr, exitCode>>

\* SendUDP, lines 113-117
UDPResolve ==
    /\ pc = "SendUDP"
    /\ \E o \in ResolveOutcomes :
          /\ net' = [net EXCEPT
                        !.resolved = Append(@, [addr |-> ServerAddr(config), outcome |-> o])]
          /\ err' = IF o = "ok" THEN Nil ELSE ErrResolveUDP
          /\ pc' = IF o = "ok" THEN "SendUDP_dial" ELSE "Send_return"
    /\ UNCHANGED <<osArgs, environ, mainConfig, config, calls, message, now, osHostname,
                   stdout, stderr, exitCode>>

\* a bug: the error of net.DialUDP is not checked, the write follows regardless
UDPDial_Unchecked ==
    /\ pc = "SendUDP_dial"
    /\ \E o \in UDPDialOutcomes :
          /\ net' = [net EXCEPT
                        !.dialed = Append(@, [network |-> UDP, addr |-> ServerAddr(config),
                                              outcome |-> o]),
                        !.open = IF o = "ok" THEN @ + 1 ELSE @]
          /\ err' = Nil
          /\ pc' = "SendUDP_write"
    /\ UNCHANGED <<osArgs, environ, mainConfig, config, calls, message, now, osHostname,
                   stdout, stderr, exitCode>>

\* SendUDP, lines 120-124
UDPDial ==
    /\ pc = "SendUDP_dial"
    /\ \E o \in UDPDialOutcomes :
          /\ net' = [net EXCEPT
                        !.dialed = Append(@, [network |-> UDP, addr |-> ServerAddr(config),
                                              outcome |-> o]),
                        !.open = IF o = "ok" THEN @ + 1 ELSE @]
          /\ err' = IF o = "ok" THEN Nil ELSE ErrConnectUDP
          /\ pc' = IF o = "ok" THEN "SendUDP_write" ELSE "Send_return"
    /\ UNCHANGED <<osArgs, environ, mainConfig, config, calls, message, now, osHostname,
                   stdout, stderr, exitCode>>

\* a bug: the result of conn.Write is dropped
UDPWrite_ErrorDropped ==
    /\ pc = "SendUDP_write"
    /\ \E p \in Peers : \E o \in WriteOutcomes(p) :
          /\ net' = [net EXCEPT
                        !.writes = Append(@, [bytes |-> UDPPayload(message), outcome |-> o])]
          /\ err' = Nil
    /\ pc' = "SendUDP_defer"
    /\ UNCHANGED <<osArgs, environ, mainConfig, config, calls, message, now, osHostname,
                   stdout, stderr, exitCode>>

\* SendUDP, lines 127-135
UDPWrite ==
    /\ pc = "SendUDP_write"
    /\ \E p \in Peers : \E o \in WriteOutcomes(p) :
          /\ net' = [net EXCEPT
                        !.writes = Append(@, [bytes |-> UDPPayload(message), outcome |-> o])]
          /\ err' = IF o = "ok" THEN Nil ELSE ErrSendUDP
    /\ pc' = "SendUDP_defer"
    /\ UNCHANGED <<osArgs, environ, mainConfig, config, calls, message, now, osHostname,
                   stdout, stderr, exitCode>>

\* a bug: the defer is missing and the socket is never closed
UDPClose_Skipped ==
    /\ pc = "SendUDP_defer"
    /\ pc' = "Send_return"
    /\ UNCHANGED <<osArgs, environ, mainConfig, config, calls, err, message, now,
                   osHostname, net, stdout, stderr, exitCode>>

\* SendUDP, line 124: the deferred conn.Close() runs as SendUDP returns
UDPClose ==
    /\ pc = "SendUDP_defer"
    /\ net' = [net EXCEPT !.open = @ - 1, !.closed = @ + 1]
    /\ pc' = "Send_return"
    /\ UNCHANGED <<osArgs, environ, mainConfig, config, calls, err, message, now,
                   osHostname, stdout, stderr, exitCode>>

\* a bug: net.Dial without a timeout never returns from a host that never answers
TCPDial_NoTimeout ==
    /\ pc = "SendTCP"
    /\ \E e \in Endpoints :
          IF e = "silent"
          THEN /\ pc' = "SendTCP_blocked"
               /\ UNCHANGED <<net, err>>
          ELSE \E o \in TCPDialOutcomes(e) :
                  /\ net' = [net EXCEPT
                                !.dialed = Append(@, [network |-> TCP,
                                                      addr |-> ServerAddr(config),
                                                      outcome |-> o]),
                                !.open = IF o = "ok" THEN @ + 1 ELSE @]
                  /\ err' = IF o = "ok" THEN Nil ELSE ErrConnectTCP
                  /\ pc' = IF o = "ok" THEN "SendTCP_write" ELSE "Send_return"
    /\ UNCHANGED <<osArgs, environ, mainConfig, config, calls, message, now, osHostname,
                   stdout, stderr, exitCode>>

\* a bug: a failed dial is blamed on the port of the configuration
TCPDial_ConfigError ==
    /\ pc = "SendTCP"
    /\ \E e \in Endpoints : \E o \in TCPDialOutcomes(e) :
          /\ net' = [net EXCEPT
                        !.dialed = Append(@, [network |-> TCP, addr |-> ServerAddr(config),
                                              outcome |-> o]),
                        !.open = IF o = "ok" THEN @ + 1 ELSE @]
          /\ err' = IF o = "ok" THEN Nil ELSE ErrPort
          /\ pc' = IF o = "ok" THEN "SendTCP_write" ELSE "Send_return"
    /\ UNCHANGED <<osArgs, environ, mainConfig, config, calls, message, now, osHostname,
                   stdout, stderr, exitCode>>

\* SendTCP, lines 141-146
TCPDial ==
    /\ pc = "SendTCP"
    /\ \E e \in Endpoints : \E o \in TCPDialOutcomes(e) :
          /\ net' = [net EXCEPT
                        !.dialed = Append(@, [network |-> TCP, addr |-> ServerAddr(config),
                                              outcome |-> o]),
                        !.open = IF o = "ok" THEN @ + 1 ELSE @]
          /\ err' = IF o = "ok" THEN Nil ELSE ErrConnectTCP
          /\ pc' = IF o = "ok" THEN "SendTCP_write" ELSE "Send_return"
    /\ UNCHANGED <<osArgs, environ, mainConfig, config, calls, message, now, osHostname,
                   stdout, stderr, exitCode>>

\* SendTCP, lines 149-158
TCPWrite ==
    /\ pc = "SendTCP_write"
    /\ \E p \in Peers : \E o \in WriteOutcomes(p) :
          /\ net' = [net EXCEPT
                        !.writes = Append(@, [bytes |-> TCPPayload(message), outcome |-> o])]
          /\ err' = IF o = "ok" THEN Nil ELSE ErrSendTCP
    /\ pc' = "SendTCP_defer"
    /\ UNCHANGED <<osArgs, environ, mainConfig, config, calls, message, now, osHostname,
                   stdout, stderr, exitCode>>

\* SendTCP, line 146: the deferred conn.Close() runs as SendTCP returns
TCPClose ==
    /\ pc = "SendTCP_defer"
    /\ net' = [net EXCEPT !.open = @ - 1, !.closed = @ + 1]
    /\ pc' = "Send_return"
    /\ UNCHANGED <<osArgs, environ, mainConfig, config, calls, err, message, now,
                   osHostname, stdout, stderr, exitCode>>

\* a bug: log.Printf in place of log.Fatalf, the run goes on to exit status 0
MainFatal_Printf ==
    /\ pc = "Send_return"
    /\ err # Nil
    /\ stderr' = Append(stderr, [kind |-> "fatal", text |-> err])
    /\ exitCode' = 0
    /\ pc' = "exit"
    /\ UNCHANGED <<osArgs, environ, mainConfig, config, calls, err, message, now,
                   osHostname, net, stdout>>

\* main, lines 259-261: log.Fatalf prints to standard error and exits with status 1
MainFatal ==
    /\ pc = "Send_return"
    /\ err # Nil
    /\ stderr' = Append(stderr, [kind |-> "fatal", text |-> err])
    /\ exitCode' = 1
    /\ pc' = "exit"
    /\ UNCHANGED <<osArgs, environ, mainConfig, config, calls, err, message, now,
                   osHostname, net, stdout>>

\* a bug: the error of Send is not checked before the success echo
MainSuccess_ErrorIgnored ==
    /\ pc = "Send_return"
    /\ stdout' = IF environ.SYSLOG_DEBUG
                 THEN Append(stdout, [kind |-> "success", address |-> mainConfig.Address,
                                      port |-> mainConfig.Port,
                                      transport |-> ToUpper(mainConfig.Transport)])
                 ELSE stdout
    /\ exitCode' = 0
    /\ pc' = "exit"
    /\ UNCHANGED <<osArgs, environ, mainConfig, config, calls, err, message, now,
                   osHostname, net, stderr>>

\* main, lines 263-268: the success echo, then main returns
MainSuccess ==
    /\ pc = "Send_return"
    /\ err = Nil
    /\ stdout' = IF environ.SYSLOG_DEBUG
                 THEN Append(stdout, [kind |-> "success", address |-> mainConfig.Address,
                                      port |-> mainConfig.Port,
                                      transport |-> ToUpper(mainConfig.Transport)])
                 ELSE stdout
    /\ exitCode' = 0
    /\ pc' = "exit"
    /\ UNCHANGED <<osArgs, environ, mainConfig, config, calls, err, message, now,
                   osHostname, net, stderr>>

Next ==
    \/ MainParse \/ MainVersion \/ MainHelp \/ MainNoMessage \/ MainNewClient
    \/ SendValidate \/ SendFormat \/ SendDebug \/ SendSwitch
    \/ UDPResolve \/ UDPDial \/ UDPWrite \/ UDPClose
    \/ TCPDial \/ TCPWrite \/ TCPClose
    \/ MainFatal \/ MainSuccess

Spec == Init /\ [][Next]_vars

\* The program is one goroutine: whenever a step can be taken, it is taken.
FairSpec == Spec /\ WF_vars(Next)

-----------------------------------------------------------------------------
(* Vocabulary of the properties.                                           *)

Called(op) == op \in Range(calls)

Count(c, s) == Cardinality({i \in 1..Len(s) : s[i] = c})

\* a and b are equal up to the case of their letters
EqualFold(a, b) ==
    /\ Len(a) = Len(b)
    /\ \A i \in 1..Len(a) :
          \/ a[i] = b[i]
          \/ \E j \in 1..26 : {a[i], b[i]} = {UpperCase[j], LowerCase[j]}

IsDecimal(s) == s # <<>> /\ \A i \in 1..Len(s) : \E d \in 1..10 : Digits[d] = s[i]

DigitValue(c) == (CHOOSE d \in 1..10 : Digits[d] = c) - 1

RECURSIVE Atoi(_)
Atoi(s) ==
    IF s = <<>> THEN 0
    ELSE Atoi(SubSeq(s, 1, Len(s) - 1)) * 10 + DigitValue(s[Len(s)])

FirstIndex(s, c) == CHOOSE i \in 1..Len(s) : s[i] = c /\ \A j \in 1..(i - 1) : s[j] # c

\* the text between the leading "<" and the first ">" of a rendered line
PriorityTag(line) == SubSeq(line, 2, FirstIndex(line, ">") - 1)

\* the rules of validation, in the order message, facility, severity, port, transport
RuleViolated(cfg, i) ==
    CASE i = 1 -> cfg.Message = <<>>
      [] i = 2 -> cfg.Facility \notin 0..23
      [] i = 3 -> cfg.Severity \notin 0..7
      [] i = 4 -> cfg.Port \notin 1..65535
      [] i = 5 -> ~EqualFold(cfg.Transport, UDP) /\ ~EqualFold(cfg.Transport, TCP)

ViolatedRules(cfg) == {i \in 1..5 : RuleViolated(cfg, i)}

RuleError == <<ErrMessage, ErrFacility, ErrSeverity, ErrPort, ErrTransport>>

\* formatMessage ran on a configuration that validateConfig had accepted
FormattedValidated == calls = <<"validateConfig", "formatMessage">> /\ err = Nil

\* the fields of the rendered line, by their place in it: "<" tag ">" timestamp,
\* a space, the host, a space, the program, ": ", the body
HostStart == Len(PriorityTag(message)) + 2 + Len(TimeFormat(now)) + 2
HostLen == Len(RawHostname(config, osHostname))
ProgramLen == Len(RawProgram(config))
HostField == SubSeq(message, HostStart, HostStart + HostLen - 1)
ProgramField ==
    SubSeq(message, HostStart + HostLen + 1, HostStart + HostLen + ProgramLen)
BodyField == SubSeq(message, Len(message) - Len(config.Message) + 1, Len(message))

\* field is raw with every space turned into a hyphen and nothing else changed
SpacesToHyphens(raw, field) ==
    /\ Len(field) = Len(raw)
    /\ \A i \in 1..Len(raw) : field[i] = IF raw[i] = " " THEN "-" ELSE raw[i]

\* s has one of the characters ws strictly between its first and its last character
HasInterior(s, ws) == \E i \in 2..(Len(s) - 1) : s[i] \in ws

-----------------------------------------------------------------------------
(* Properties of validateConfig and formatMessage, checked under           *)
(* SpecClient.                                                             *)

\* C1: validateConfig returns an error if and only if the message is empty, or
\* the facility is outside 0..23, or the severity is outside 0..7, or the port
\* is outside 1..65535, or the transport is neither "udp" nor "tcp" up to letter
\* case; Address, Hostname and Program play no part.
C1_ValidationFailsIff ==
    Called("validateConfig") =>
        ((err # Nil) <=> (ViolatedRules(mainConfig) # {}))

C1_Witness ==
    /\ Called("validateConfig")
    /\ err = ErrTransport
    /\ ViolatedRules(mainConfig) = {5}
    /\ mainConfig.Hostname # <<>>
    /\ mainConfig.Program # <<>>

\* C2: when several rules are violated, validateConfig reports the first one in
\* the order message, facility, severity, port, transport.
C2_FirstViolationReported ==
    (Called("validateConfig") /\ Cardinality(ViolatedRules(mainConfig)) >= 2) =>
        \E i \in ViolatedRules(mainConfig) :
            /\ \A j \in ViolatedRules(mainConfig) : i <= j
            /\ err = RuleError[i]

C2_Witness ==
    /\ Called("validateConfig")
    /\ ViolatedRules(mainConfig) = {3, 4, 5}
    /\ err = ErrSeverity

\* C3: for a facility f in 0..23 and a severity s in 0..7 the number between "<"
\* and ">" of the rendered line is f*8+s, it lies in 0..191, and (f, s) can be
\* read back from it, so distinct pairs give distinct priorities.
C3_PriorityTag ==
    (Called("formatMessage") /\ config.Facility \in 0..23 /\ config.Severity \in 0..7) =>
        /\ message[1] = "<"
        /\ IsDecimal(PriorityTag(message))
        /\ Atoi(PriorityTag(message)) = config.Facility * 8 + config.Severity
        /\ Atoi(PriorityTag(message)) \in 0..191
        /\ Atoi(PriorityTag(message)) \div 8 = config.Facility
        /\ Atoi(PriorityTag(message)) % 8 = config.Severity

C3_Witness ==
    /\ Called("formatMessage")
    /\ config.Facility = 23
    /\ config.Severity = 7
    /\ PriorityTag(message) = <<"1","9","1">>

\* C4: for a validated configuration the rendered line is "<", the priority in
\* decimal without leading zeros, ">", the timestamp, a space, the host, a space,
\* the program, ": " and the message unchanged, in that order.
C4_LineLayout ==
    FormattedValidated =>
        /\ IsDecimal(PriorityTag(message))
        /\ Len(PriorityTag(message)) = 1 \/ PriorityTag(message)[1] # "0"
        /\ Atoi(PriorityTag(message)) = mainConfig.Facility * 8 + mainConfig.Severity
        /\ message = <<"<">> \o PriorityTag(message) \o <<">">> \o TimeFormat(now)
                        \o <<" ">> \o Hostname(config, osHostname)
                        \o <<" ">> \o Program(config)
                        \o <<":", " ">> \o mainConfig.Message

C4_Witness ==
    /\ FormattedValidated
    /\ config.Facility = 0
    /\ config.Severity = 0
    /\ config.Hostname = <<"h">>
    /\ config.Program = <<>>
    /\ PriorityTag(message) = <<"0">>

\* C5: in the rendered line every space of the effective host and of the
\* effective program (override, system hostname or default program name) is a
\* hyphen and no other character of them is changed; the message body keeps its
\* spaces.
C5_SpacesBecomeHyphens ==
    Called("formatMessage") =>
        /\ SpacesToHyphens(RawHostname(config, osHostname), HostField)
        /\ SpacesToHyphens(RawProgram(config), ProgramField)
        /\ BodyField = config.Message

C5_Witness ==
    /\ Called("formatMessage")
    /\ config.Hostname = <<>>
    /\ osHostname.name = <<"m","y"," ","b","o","x">>
    /\ HostField = <<"m","y","-","b","o","x">>
    /\ ProgramField = <<"p","-","q">>
    /\ BodyField = <<"m"," ","m">>

\* C6 as stated: for every hostname override and program override the host field
\* and the program field of the rendered line contain no interior whitespace,
\* whether a space, a tab or a newline.
C6_NoInteriorWhitespace ==
    Called("formatMessage") =>
        /\ config.Hostname # <<>> => ~HasInterior(HostField, {" ", "\t", "\n"})
        /\ config.Program # <<>> => ~HasInterior(ProgramField, {" ", "\t", "\n"})

\* C6 as amended: the host field and the program field of the rendered line
\* contain no space at all; a tab or a newline of an override is rendered
\* unchanged, so a field has interior whitespace exactly when its override has an
\* interior tab or newline.
C6_NoSpaceOtherWhitespaceKept ==
    Called("formatMessage") =>
        /\ config.Hostname # <<>> =>
              /\ " " \notin Range(HostField)
              /\ \A i \in 1..Len(config.Hostname) :
                    config.Hostname[i] \in {"\t", "\n"} => HostField[i] = config.Hostname[i]
              /\ HasInterior(HostField, {" ", "\t", "\n"})
                    <=> HasInterior(config.Hostname, {"\t", "\n"})
        /\ config.Program # <<>> =>
              /\ " " \notin Range(ProgramField)
              /\ \A i \in 1..Len(config.Program) :
                    config.Program[i] \in {"\t", "\n"} => ProgramField[i] = config.Program[i]
              /\ HasInterior(ProgramField, {" ", "\t", "\n"})
                    <=> HasInterior(config.Program, {"\t", "\n"})

C6_Witness ==
    /\ Called("formatMessage")
    /\ config.Hostname = <<"a", "\t", "a">>
    /\ HostField = <<"a", "\t", "a">>
    /\ config.Program = <<"p", " ", "q">>
    /\ ProgramField = <<"p", "-", "q">>

\* C7 as stated: for a validated configuration the rendered text contains no
\* newline and does not end with one.
C7_NoNewline == FormattedValidated => "\n" \notin Range(message)

\* C7 as amended: formatMessage adds no newline of its own: the rendered text
\* holds exactly the newlines of the message, the effective host and the
\* effective program, and it ends with a newline exactly when the message does.
C7_NoNewlineAdded ==
    FormattedValidated =>
        /\ Count("\n", message) =
              Count("\n", mainConfig.Message)
                  + Count("\n", RawHostname(config, osHostname))
                  + Count("\n", RawProgram(config))
        /\ message[Len(message)] = "\n"
              <=> mainConfig.Message[Len(mainConfig.Message)] = "\n"

C7_Witness ==
    /\ FormattedValidated
    /\ mainConfig.Message = <<"m", "\n">>
    /\ mainConfig.Hostname = <<"a", "\n", "a">>
    /\ Count("\n", message) = 2

-----------------------------------------------------------------------------
(* Properties of a run of the program, checked under Spec.                 *)

PortGiven == osArgs.port # <<>>

\* C8 as stated: a port given on the command line together with transport tcp
\* is the port of the client, the value 514 included.
C8_GivenPortKept ==
    (Called("NewSyslogClient") /\ PortGiven /\ EqualFold(mainConfig.Transport, TCP)) =>
        config.Port = osArgs.port[Len(osArgs.port)]

\* C9: with no port option the port of the client is 601 for transport tcp and
\* 514 for transport udp, in any letter case; with transport udp the adjustment
\* never changes the port.
C9_DefaultPortByTransport ==
    Called("NewSyslogClient") =>
        /\ (~PortGiven /\ EqualFold(mainConfig.Transport, TCP)) => config.Port = 601
        /\ (~PortGiven /\ EqualFold(mainConfig.Transport, UDP)) => config.Port = 514
        /\ EqualFold(mainConfig.Transport, UDP) => config.Port = FlagParse(osArgs).Port
        /\ mainConfig.Port = config.Port

C9_Witness ==
    /\ ~PortGiven
    /\ osArgs.transport = << <<"T","c","p">> >>
    /\ Len(net.dialed) = 1
    /\ net.dialed[1].addr = <<"l","o","c","a","l","h","o","s","t",":","6","0","1">>

\* C10: once validation has succeeded Send enters exactly one of SendUDP and
\* SendTCP, SendUDP when the transport is "udp" up to letter case and SendTCP
\* when it is "tcp" up to letter case; it never enters both or the other one.
C10_OneStrategy ==
    /\ Count("SendUDP", calls) + Count("SendTCP", calls) <= 1
    /\ Called("SendUDP") => (Called("formatMessage") /\ EqualFold(mainConfig.Transport, UDP))
    /\ Called("SendTCP") => (Called("formatMessage") /\ EqualFold(mainConfig.Transport, TCP))
    /\ (Called("formatMessage") /\ pc \notin {"Send_debug", "Send_switch"}) =>
          (Called("SendUDP") \/ Called("SendTCP"))

C10_Witness ==
    /\ pc = "SendTCP"
    /\ mainConfig.Transport = <<"T","c","p">>
    /\ config.Transport = TCP
    /\ ~Called("SendUDP")


\* a call of the network that did not succeed
NetFailed ==
    \/ \E i \in 1..Len(net.resolved) : net.resolved[i].outcome # "ok"
    \/ \E i \in 1..Len(net.dialed) : net.dialed[i].outcome # "ok"
    \/ \E i \in 1..Len(net.writes) : net.writes[i].outcome # "ok"

Returned == pc \in {"Send_return", "exit"}

\* C11: the bytes given to conn.Write are the rendered line with nothing added
\* on the UDP path and the rendered line followed by exactly one newline on the
\* TCP path; the line is what formatMessage returned.
C11_BytesWritten ==
    \A i \in 1..Len(net.writes) :
        /\ message = formatMessage(config, now, osHostname)
        /\ Called("SendUDP") => net.writes[i].bytes = message
        /\ Called("SendTCP") =>
              /\ Len(net.writes[i].bytes) = Len(message) + 1
              /\ SubSeq(net.writes[i].bytes, 1, Len(message)) = message
              /\ net.writes[i].bytes[Len(message) + 1] = "\n"

C11_Witness ==
    /\ Called("SendTCP")
    /\ Len(net.writes) = 1
    /\ net.writes[1].outcome = "ok"
    /\ net.writes[1].bytes = message \o <<"\n">>

\* C12: a run makes at most one resolve, opens at most one socket and issues at
\* most one write; after a failed resolve, dial or write it makes no further
\* one, and the failure is the error Send returns, which main reports on
\* standard error with exit status 1.
C12_SingleAttempt ==
    /\ [](/\ Len(net.resolved) <= 1
          /\ Len(net.dialed) <= 1
          /\ Len(net.writes) <= 1
          /\ net.open <= 1)
    /\ [][NetFailed => /\ net.resolved' = net.resolved
                       /\ net.dialed' = net.dialed
                       /\ net.writes' = net.writes]_vars
    /\ []((NetFailed /\ Returned) => err \notin {Nil, Unset})
    /\ []((NetFailed /\ pc = "exit") =>
              /\ exitCode = 1
              /\ stderr = <<[kind |-> "fatal", text |-> err]>>)

C12_Witness ==
    /\ pc = "exit"
    /\ Len(net.dialed) = 1
    /\ net.dialed[1].outcome = "connect"
    /\ net.writes = <<>>
    /\ exitCode = 1

\* C13: when a send call has returned, on every path, no socket is open: every
\* socket that was opened has been closed, and a socket is closed only after the
\* write was attempted.
C13_SocketsClosed ==
    /\ Returned =>
          /\ net.open = 0
          /\ net.closed = Cardinality({i \in 1..Len(net.dialed) : net.dialed[i].outcome = "ok"})
    /\ net.closed <= Len(net.writes)

C13_Witness ==
    /\ pc = "Send_return"
    /\ net.closed = 1
    /\ net.open = 0
    /\ Len(net.writes) = 1
    /\ net.writes[1].outcome = "timeout"


HelpOrVersion == FlagValue(osArgs.version, FALSE) \/ FlagValue(osArgs.help, FALSE)

\* the first violated rule of a configuration that violates one
FirstViolated(cfg) ==
    CHOOSE i \in ViolatedRules(cfg) : \A j \in ViolatedRules(cfg) : i <= j

\* C14: in a run whose configuration is invalid nothing is resolved, no socket
\* is opened and nothing is written at any point, and unless help or version was
\* asked for the run ends with the violated rule reported on standard error.
C14_InvalidNoNetwork ==
    ViolatedRules(FlagParse(osArgs)) # {} =>
        /\ net = NoNet
        /\ ~Called("SendUDP") /\ ~Called("SendTCP")
        /\ (pc = "exit" /\ ~HelpOrVersion) =>
              /\ exitCode = 1
              /\ Len(stderr) = 1
              /\ stderr[1].text = RuleError[FirstViolated(FlagParse(osArgs))]

C14_Witness ==
    /\ pc = "exit"
    /\ ViolatedRules(FlagParse(osArgs)) = {2}
    /\ stderr = <<[kind |-> "fatal", text |-> ErrFacility]>>
    /\ net = NoNet

SendSucceeded ==
    /\ Len(net.writes) = 1
    /\ net.writes[1].outcome = "ok"
    /\ err = Nil

\* C15: the exit status is 0 exactly when the send succeeded or help or version
\* was shown, it is not 0 after a validation failure or a transmission failure,
\* and every exit with a status other than 0 has written an error to standard
\* error.
C15_ExitStatus ==
    pc = "exit" =>
        /\ exitCode = 0 <=> (HelpOrVersion \/ SendSucceeded)
        /\ HelpOrVersion =>
              \E i \in 1..Len(stdout) : stdout[i].kind \in {"usage", "version"}
        /\ (~HelpOrVersion /\ (ViolatedRules(FlagParse(osArgs)) # {} \/ NetFailed)) =>
              exitCode # 0
        /\ exitCode # 0 => stderr # <<>>

C15_Witness ==
    /\ pc = "exit"
    /\ exitCode = 0
    /\ SendSucceeded
    /\ ~HelpOrVersion

ConfigurationErrors == {ErrMessage, ErrFacility, ErrSeverity, ErrPort, ErrTransport}
TransportErrors == {ErrResolveUDP, ErrConnectUDP, ErrSendUDP, ErrConnectTCP, ErrSendTCP}

\* C16: a failure during transmission is returned as a transport error and
\* never as a configuration error, a validation failure is returned as a
\* configuration error and never as a transport error, and a TCP send of a valid
\* configuration to a refusing endpoint returns the connect error.
C16_ErrorKinds ==
    (Returned /\ Called("Send")) =>
        /\ NetFailed => (err \in TransportErrors /\ err \notin ConfigurationErrors)
        /\ ViolatedRules(mainConfig) # {} =>
              (err \in ConfigurationErrors /\ err \notin TransportErrors)
        /\ err \in ConfigurationErrors => net = NoNet
        /\ \A i \in 1..Len(net.dialed) :
              (net.dialed[i].network = TCP /\ net.dialed[i].outcome = "connect") =>
                  err = ErrConnectTCP

C16_Witness ==
    /\ Returned
    /\ ViolatedRules(mainConfig) = {}
    /\ Len(net.dialed) = 1
    /\ net.dialed[1].network = TCP
    /\ net.dialed[1].outcome = "connect"
    /\ err = ErrConnectTCP


\* the phase the context of a transport error names
Phase(e) ==
    CASE e = ErrResolveUDP -> "resolve"
      [] e \in {ErrConnectUDP, ErrConnectTCP} -> "connect"
      [] e \in {ErrSendUDP, ErrSendTCP} -> "write"
      [] OTHER -> "none"

\* the phase in which the network call of an outcome failed
OutcomePhase(call, o) ==
    CASE o = "resolve" -> "resolve"
      [] o = "connect" -> "connect"
      [] o = "write" -> "write"
      [] o = "timeout" -> IF call = "dial" THEN "connect" ELSE "write"
      [] OTHER -> "none"

\* the phases in which a call of the run failed
FailedPhases ==
    ({OutcomePhase("resolve", net.resolved[i].outcome) : i \in 1..Len(net.resolved)}
        \cup {OutcomePhase("dial", net.dialed[i].outcome) : i \in 1..Len(net.dialed)}
        \cup {OutcomePhase("write", net.writes[i].outcome) : i \in 1..Len(net.writes)})
        \ {"none"}

\* On both transports the returned error names the phase that failed.
C17_PhaseReported ==
    (Returned /\ NetFailed) => FailedPhases = {Phase(err)}

\* C17: on the UDP path the returned error names the phase that failed (resolve,
\* connect or write); on the TCP path a write failure is returned as a write
\* failure, and a failure of address resolution is returned, like a failure to
\* connect, as a connect failure.
C17_PhaseReportedPerTransport ==
    (Returned /\ NetFailed) =>
        /\ Cardinality(FailedPhases) = 1
        /\ config.Transport = UDP => FailedPhases = {Phase(err)}
        /\ config.Transport = TCP =>
              /\ FailedPhases = {"write"} <=> Phase(err) = "write"
              /\ FailedPhases \subseteq {"resolve", "connect"} <=> Phase(err) = "connect"
              /\ Phase(err) # "resolve"

C17_Witness ==
    /\ Returned
    /\ config.Transport = TCP
    /\ Len(net.dialed) = 1
    /\ net.dialed[1].outcome = "resolve"
    /\ err = ErrConnectTCP


Sending == Called("SendUDP") \/ Called("SendTCP")

\* C18: every run reaches the exit of the process, and a run that entered
\* SendUDP or SendTCP returns from it with success or with a transport error,
\* whatever the endpoint does (listening, refusing, silent): no run stays in
\* connecting or in writing for ever.
C18_Terminates ==
    /\ <>(pc = "exit" /\ exitCode \in {0, 1})
    /\ Sending ~> (Returned /\ err \in {Nil} \cup TransportErrors)

C18_Witness ==
    /\ pc = "exit"
    /\ exitCode = 1
    /\ Len(net.dialed) = 1
    /\ net.dialed[1].outcome = "timeout"
    /\ err = ErrConnectTCP


\* the state of the send attempt of a run
AttemptState ==
    IF ~Sending THEN "idle"
    ELSE IF pc \in {"SendUDP", "SendUDP_dial", "SendTCP"} THEN "connecting"
    ELSE IF pc \in {"SendUDP_write", "SendUDP_defer", "SendTCP_write", "SendTCP_defer"}
         THEN "writing"
    ELSE IF err = Nil THEN "closed"
    ELSE "failed"

AttemptEdges ==
    { <<"idle", "idle">>, <<"idle", "connecting">>,
      <<"connecting", "connecting">>, <<"connecting", "writing">>,
      <<"connecting", "failed">>,
      <<"writing", "writing">>, <<"writing", "closed">>, <<"writing", "failed">>,
      <<"closed", "closed">>, <<"failed", "failed">> }

AttemptStep == <<AttemptState, AttemptState'>> \in AttemptEdges

\* C19: a send attempt moves only along idle -> connecting -> writing -> closed,
\* idle -> connecting -> failed and idle -> connecting -> writing -> failed; it
\* is writing only after the resolution (UDP) and the dial succeeded, it is
\* closed, and the run exits with success, only after a write that succeeded,
\* and nothing leaves closed or failed.
C19_AttemptPaths ==
    /\ [][AttemptStep]_vars
    /\ [](AttemptState = "writing" =>
              /\ \A i \in 1..Len(net.resolved) : net.resolved[i].outcome = "ok"
              /\ config.Transport = UDP => Len(net.resolved) = 1
              /\ Len(net.dialed) = 1
              /\ net.dialed[1].outcome = "ok"
              /\ net.open = 1)
    /\ [](AttemptState = "closed" =>
              /\ Len(net.writes) = 1
              /\ net.writes[1].outcome = "ok"
              /\ net.open = 0)
    /\ []((Sending /\ pc = "exit" /\ exitCode = 0) => AttemptState = "closed")
    /\ []((AttemptState = "failed") => NetFailed)

C19_Witness ==
    /\ AttemptState = "failed"
    /\ pc = "exit"
    /\ Len(net.dialed) = 1
    /\ net.dialed[1].outcome = "ok"
    /\ Len(net.writes) = 1
    /\ net.writes[1].outcome = "write"


\* the step is a call of the operation named: it is the last one entered
Enters(op) ==
    /\ Len(calls') > Len(calls)
    /\ calls'[Len(calls')] = op

\* C20: NewSyslogClient copies the configuration it is given; after that the
\* only step that changes the client's configuration is a validateConfig that
\* succeeds, which replaces Transport by its lower-case form and nothing else; a
\* validateConfig that fails, formatMessage, SendUDP and SendTCP and every other
\* step leave every field as it was.
C20_ConfigFrame ==
    [][ IF Enters("NewSyslogClient") THEN config' = mainConfig'
        ELSE IF Enters("validateConfig") /\ err' = Nil
             THEN /\ config' = [config EXCEPT !.Transport = ToLower(config.Transport)]
                  /\ config'.Transport \in {UDP, TCP}
        ELSE config' = config ]_vars

C20_Witness ==
    /\ pc = "exit"
    /\ mainConfig.Transport = <<"T","c","p">>
    /\ config = [mainConfig EXCEPT !.Transport = TCP]
    /\ Called("SendTCP")
    /\ Len(net.writes) = 1


\* the host and the program a line is to report, before the spaces are replaced
EffectiveHost ==
    IF config.Hostname # <<>> THEN config.Hostname
    ELSE IF osHostname.err = Nil THEN osHostname.name
    ELSE <<"l","o","c","a","l","h","o","s","t">>

EffectiveProgram ==
    IF config.Program # <<>> THEN config.Program
    ELSE <<"s","y","s","l","o","g","-","s","e","n","d","e","r">>

Hyphenated(s) == [i \in 1..Len(s) |-> IF s[i] = " " THEN "-" ELSE s[i]]

\* C21: after the timestamp the rendered line is the effective host, the
\* effective program and the body, the host being the Hostname override when it
\* is not empty, else the name os.Hostname() returned when it returned no error,
\* else "localhost", and the program being the Program override when it is not
\* empty, else "syslog-sender" (each with its spaces as hyphens); with a
\* non-empty Hostname override os.Hostname() is not called at all.
C21_EffectiveHostProgram ==
    Called("formatMessage") =>
        /\ SubSeq(message, HostStart, Len(message)) =
              Hyphenated(EffectiveHost) \o <<" ">> \o Hyphenated(EffectiveProgram)
                  \o <<":", " ">> \o config.Message
        /\ config.Hostname # <<>> <=> osHostname = NoHostnameCall

C21_Witness ==
    /\ Called("formatMessage")
    /\ config.Hostname = <<>>
    /\ config.Program = <<>>
    /\ osHostname.err \notin {Nil, Unset}
    /\ SubSeq(message, HostStart, HostStart + 9) =
          <<"l","o","c","a","l","h","o","s","t"," ">>


\* the places of standard output where a line of the kind k was written
Echoes(k) == {i \in 1..Len(stdout) : stdout[i].kind = k}

Echoed(k) == Echoes(k) # {}

\* the step writes the first line of the kind k
EchoStep(k) == Echoes(k) = {} /\ \E i \in 1..Len(stdout') : stdout'[i].kind = k

\* "host:port" as a dial is given it
TargetAddr(address, port) == address \o <<":">> \o Itoa(port)

\* the echoed target is the one every dial of the run was given
TargetUsed(e, network) ==
    \A i \in 1..Len(net.dialed) :
        /\ net.dialed[i].addr = TargetAddr(e.address, e.port)
        /\ net.dialed[i].network = network

\* C22: with SYSLOG_DEBUG on, the rendered line and the target are echoed, once,
\* in the step after a validation that succeeded and while nothing has been
\* resolved, dialed or written, and every network call of the run comes after
\* them; the success line is echoed only at the exit of a run whose write
\* succeeded, and it is then always echoed; the address, port and transport of
\* both echoes are those the dial was given (the success line names the
\* transport in upper case). With SYSLOG_DEBUG off none of the three lines is
\* written.
C22_DebugEcho ==
    /\ [](~environ.SYSLOG_DEBUG =>
              ~Echoed("debug_message") /\ ~Echoed("debug_target") /\ ~Echoed("success"))
    /\ [][EchoStep("debug_target") =>
              /\ EchoStep("debug_message")
              /\ Called("formatMessage")
              /\ ViolatedRules(config) = {}
              /\ net = NoNet /\ net' = NoNet]_vars
    /\ []((environ.SYSLOG_DEBUG /\ (net # NoNet \/ Sending)) =>
              /\ Cardinality(Echoes("debug_message")) = 1
              /\ Cardinality(Echoes("debug_target")) = 1)
    /\ [](\A i \in Echoes("debug_message") : stdout[i].text = message)
    /\ [](\A i \in Echoes("debug_target") :
              /\ stdout[i].address = config.Address
              /\ stdout[i].port = config.Port
              /\ stdout[i].transport = config.Transport
              /\ TargetUsed(stdout[i], stdout[i].transport))
    /\ [](\A i \in Echoes("success") :
              /\ pc = "exit"
              /\ SendSucceeded
              /\ ~NetFailed
              /\ i = Len(stdout)
              /\ Len(net.dialed) = 1
              /\ TargetUsed(stdout[i], ToLower(stdout[i].transport))
              /\ stdout[i].transport = ToUpper(config.Transport))
    /\ []((environ.SYSLOG_DEBUG /\ pc = "exit" /\ Sending /\ SendSucceeded) =>
              Cardinality(Echoes("success")) = 1)

C22_Witness ==
    /\ pc = "exit"
    /\ environ.SYSLOG_DEBUG
    /\ Len(stdout) = 3
    /\ stdout[1] = [kind |-> "debug_message", text |-> message]
    /\ stdout[2].kind = "debug_target"
    /\ stdout[2].transport = TCP
    /\ stdout[2].port = DefaultTCPPort
    /\ stdout[3].kind = "success"
    /\ stdout[3].transport = <<"T","C","P">>
    /\ stdout[3].port = DefaultTCPPort
    /\ mainConfig.Transport = <<"T","c","p">>


\* C23: in a run given -help or -version no client is constructed, nothing is
\* validated, formatted, resolved, dialed or written and nothing goes to
\* standard error, whatever the other options are; the run exits with status 0
\* having printed the version lines alone when -version is given (with or
\* without -help) and the usage alone when only -help is given.
C23_HelpVersionOnly ==
    HelpOrVersion =>
        /\ calls = <<>>
        /\ config = NoConfig
        /\ message = NoMessage
        /\ net = NoNet
        /\ stderr = <<>>
        /\ pc = "exit" =>
              /\ exitCode = 0
              /\ stdout = IF FlagValue(osArgs.version, FALSE)
                          THEN <<[kind |-> "version"], [kind |-> "project"]>>
                          ELSE <<[kind |-> "usage"]>>

C23_Witness ==
    /\ pc = "exit"
    /\ FlagValue(osArgs.version, FALSE)
    /\ FlagValue(osArgs.help, FALSE)
    /\ mainConfig.Message = <<>>
    /\ mainConfig.Facility > MaxFacility
    /\ mainConfig.Port = 0
    /\ exitCode = 0
    /\ Echoes("usage") = {}


\* s is t or the beginning of t
IsPrefix(s, t) == Len(s) <= Len(t) /\ s = SubSeq(t, 1, Len(s))

\* the operations of a run that goes as far as it can, in their order
Stages(transmit) ==
    <<"NewSyslogClient", "Send", "validateConfig", "formatMessage", transmit>>

\* C24: the operations of a run are entered in the order validateConfig,
\* formatMessage, SendUDP or SendTCP, each once at most; formatMessage is entered
\* only after a validation that succeeded, and once it is entered the run always
\* goes on to SendUDP or SendTCP, the one named by the stored transport: Send
\* never returns "unsupported transport" nor "failed to format message", and
\* neither text reaches standard error.
C24_StagesInOrder ==
    /\ IsPrefix(calls, Stages("SendUDP")) \/ IsPrefix(calls, Stages("SendTCP"))
    /\ Called("formatMessage") =>
          /\ ViolatedRules(mainConfig) = {}
          /\ config.Transport \in {UDP, TCP}
          /\ message # NoMessage
    /\ (Called("formatMessage") /\ Returned) => Sending
    /\ Called("SendUDP") => config.Transport = UDP
    /\ Called("SendTCP") => config.Transport = TCP
    /\ err \notin {ErrUnsupported, ErrFormat}
    /\ \A i \in 1..Len(stderr) : stderr[i].text \notin {ErrUnsupported, ErrFormat}

C24_Witness ==
    /\ pc = "exit"
    /\ calls = Stages("SendUDP")
    /\ mainConfig.Transport = <<"U","D","P">>
    /\ osHostname.err \notin {Nil, Unset}
    /\ err = Nil

====
